---- MODULE Spec2Model ----
(***************************************************************************)
(* poll(2)-based Selector of mio: src/sys/unix/selector/poll.rs.           *)
(* The model is the debug build (cfg(debug_assertions)): the Selector has  *)
(* an id and a has_waker latch, and the debug_assert of select is live.    *)
(***************************************************************************)
EXTENDS Integers, Sequences, FiniteSets, TLC

\* ---------------------------------------------------------------- bounds
\* Descriptors the owner of a single Selector uses (Spec): 3 .. 2 + NumFds.
NumFds == 2
\* Selectors that new and try_clone create in one run of SpecShared.
MaxSel == 2
\* Descriptors used when several Selectors exist (SpecShared).
NumSharedFds == 1
\* Cap on the length of a registration table (Vec::push is unbounded).
MaxTable == 3
\* Descriptors used where the order of the table matters (SpecTable).
NumTableFds == 3
\* Width of the observed masks given to the classification predicates
\* (SpecPure): the ten bits POLLIN .. POLLWRBAND.
MaskBits == 10

FDs == 3..(2 + NumFds)
SharedFDs == 3..(2 + NumSharedFds)
TableFDs == 3..(2 + NumTableFds)

\* Tokens the caller passes to register and reregister; none of them is the
\* value of a descriptor.
Tokens == {1007, 1008}

\* --------------------------------------------------- libc poll constants
POLLIN == 1
POLLPRI == 2
POLLOUT == 4
POLLERR == 8
POLLHUP == 16
POLLNVAL == 32
POLLRDNORM == 64
POLLRDBAND == 128
POLLWRNORM == 256
POLLWRBAND == 512

RECURSIVE BitAnd(_, _)
BitAnd(a, b) ==
    IF a = 0 \/ b = 0 THEN 0
    ELSE (a % 2) * (b % 2) + 2 * BitAnd(a \div 2, b \div 2)

RECURSIVE BitOr(_, _)
BitOr(a, b) ==
    IF a = 0 THEN b
    ELSE IF b = 0 THEN a
    ELSE (IF a % 2 = 1 \/ b % 2 = 1 THEN 1 ELSE 0) + 2 * BitOr(a \div 2, b \div 2)

\* `x as libc::c_short`: wrap to a signed 16-bit value.
as_c_short(x) == ((x + 32768) % 65536) - 32768

\* --------------------------------------------------------------- Interest
READABLE == "READABLE"
WRITABLE == "WRITABLE"
\* crate::Interest: a non-empty set of readiness classes.
Interest == (SUBSET {READABLE, WRITABLE}) \ {{}}
Interest_is_readable(interests) == READABLE \in interests
Interest_is_writable(interests) == WRITABLE \in interests

\* ---------------------------------------------------- Readiness translator
\* POLLOUT | POLLWRNORM | POLLWRBAND
WriteBits == BitOr(BitOr(POLLOUT, POLLWRNORM), POLLWRBAND)
\* POLLIN | POLLRDNORM | POLLRDBAND | POLLPRI
ReadBits == BitOr(BitOr(BitOr(POLLIN, POLLRDNORM), POLLRDBAND), POLLPRI)
\* POLLHUP | POLLERR
ErrorBits == BitOr(POLLHUP, POLLERR)
\* POLLRDBAND | POLLWRBAND | POLLPRI
PriorityBits == BitOr(BitOr(POLLRDBAND, POLLWRBAND), POLLPRI)

\* The translator asking for POLLHUP in the place of POLLPRI.
interests_to_poll_hup(interests) ==
    as_c_short(
        BitOr(IF Interest_is_writable(interests) THEN WriteBits ELSE 0,
              IF Interest_is_readable(interests)
                THEN BitOr(BitOr(BitOr(POLLIN, POLLRDNORM), POLLRDBAND), POLLHUP)
                ELSE 0))

\* The translator with the two sets of bits exchanged.
interests_to_poll_swapped(interests) ==
    as_c_short(
        BitOr(IF Interest_is_writable(interests) THEN ReadBits ELSE 0,
              IF Interest_is_readable(interests) THEN WriteBits ELSE 0))

interests_to_poll(interests) ==
    as_c_short(
        BitOr(IF Interest_is_writable(interests) THEN WriteBits ELSE 0,
              IF Interest_is_readable(interests) THEN ReadBits ELSE 0))

\* Token(event.events as usize): the token read from the wrong field.
token_events(event) == event.events

\* Token(event.fd as usize).  The descriptors of the model are non-negative
\* (FDs), where the conversion of an i32 to usize keeps the value.
token(event) == event.fd

is_readable(event) ==
    BitAnd(as_c_short(event.revents), ReadBits) # 0

is_writable(event) ==
    BitAnd(as_c_short(event.revents), WriteBits) # 0

is_error(event) ==
    BitAnd(as_c_short(event.revents), ErrorBits) # 0

is_read_closed(event) ==
    BitAnd(as_c_short(event.revents), POLLHUP) # 0

\* is_write_closed without its last disjunct.
is_write_closed_out_err(event) ==
    LET revents == as_c_short(event.revents)
    IN  \/ BitAnd(revents, POLLHUP) # 0
        \/ (BitAnd(revents, POLLOUT) # 0 /\ BitAnd(revents, POLLERR) # 0)

is_write_closed(event) ==
    LET revents == as_c_short(event.revents)
    IN  \/ BitAnd(revents, POLLHUP) # 0
        \/ (BitAnd(revents, POLLOUT) # 0 /\ BitAnd(revents, POLLERR) # 0)
        \/ BitAnd(revents, POLLERR) # 0

is_priority(event) ==
    BitAnd(as_c_short(event.revents), PriorityBits) # 0

is_aio(event) == FALSE

is_lio(event) == FALSE

\* ------------------------------------------------------------ Environment
\* Readiness the OS may hold for one descriptor when poll looks at it.
OsMasks == {0, POLLIN, POLLOUT, POLLHUP, POLLNVAL}

\* Failures of poll(2): EINTR (a signal arrived while nothing was ready) and
\* ENOMEM (no kernel memory for the wait tables).
PollErrors == {"EINTR", "ENOMEM"}

\* Option<Duration>: None, or Some of a std::time::Duration (secs, nanos).
None == [is_some |-> FALSE, secs |-> 0, nanos |-> 0]
Some(secs, nanos) == [is_some |-> TRUE, secs |-> secs, nanos |-> nanos]
\* The timeouts the caller passes: none, zero, and 2147484 s, whose
\* millisecond count is above the largest c_int.
Timeouts == {None, Some(0, 0), Some(2147484, 0)}

\* A batch the caller hands to select: a fresh one, or one that an earlier
\* wait left filled.
BatchInputs ==
    { <<>>, <<[fd |-> 3, events |-> ReadBits, revents |-> POLLIN]>> }


\* Duration::as_millis (u128): secs * 1000 + nanos / 1_000_000, kept as the
\* pair hi, lo with value hi * 2^16 + lo so that no intermediate overflows.
as_millis(to) ==
    LET lo_sum == (to.secs % 65536) * 1000 + (to.nanos \div 1000000)
    IN  [hi |-> (to.secs \div 65536) * 1000 + (lo_sum \div 65536),
         lo |-> lo_sum % 65536]

\* `m as libc::c_int`: keep the low 32 bits, read as a signed value.
as_c_int(m) ==
    LET hi == m.hi % 65536
    IN  IF hi >= 32768 THEN (hi - 65536) * 65536 + m.lo ELSE hi * 65536 + m.lo

\* The conversion with a zero duration taken as no timeout.
select_timeout_zero_none(timeout) ==
    IF timeout.is_some /\ as_c_int(as_millis(timeout)) # 0
      THEN as_c_int(as_millis(timeout)) ELSE -1

\* timeout.map(|to| to.as_millis() as libc::c_int).unwrap_or(-1)
select_timeout(timeout) ==
    IF timeout.is_some THEN as_c_int(as_millis(timeout)) ELSE -1

\* The bits poll reports whether or not they were asked for.
AlwaysReported == BitOr(BitOr(POLLERR, POLLHUP), POLLNVAL)

\* poll(2) over the array fds.  It fills revents of every entry with the
\* part of the descriptor's readiness that was asked for, or that is always
\* reported (POLLERR, POLLHUP, POLLNVAL), and returns the number of entries
\* with a non-zero revents.  A negative timeout waits without limit, so the
\* call does not return (blocks) while nothing is ready.  On EINTR the
\* kernel has written the (all zero) revents back; on ENOMEM it has written
\* nothing.
poll(fds, nfds, timeout, os) ==
    LET filled == <<>> \o [i \in 1..nfds |->
                     [fds[i] EXCEPT !.revents =
                        IF fds[i].fd < 0 THEN 0
                        ELSE BitAnd(os.ready[fds[i].fd],
                                    BitOr(fds[i].events, AlwaysReported))]]
        n == Cardinality({i \in 1..nfds : filled[i].revents # 0})
    IN  IF os.err = "ENOMEM" THEN [fds |-> fds, n |-> -1, err |-> os.err, blocks |-> FALSE]
        ELSE IF n = 0 /\ os.err = "EINTR"
               THEN [fds |-> filled, n |-> -1, err |-> os.err, blocks |-> FALSE]
        ELSE [fds |-> filled, n |-> n, err |-> "none", blocks |-> n = 0 /\ timeout < 0]

\* ---------------------------------------------------------------- Selector
\* Index of the first entry of fds for descriptor fd, 0 when there is none
\* (Iterator::find / Iterator::position).
position(fds, fd) ==
    IF \E i \in 1..Len(fds) : fds[i].fd = fd
      THEN CHOOSE i \in 1..Len(fds) :
             fds[i].fd = fd /\ \A j \in 1..(i - 1) : fds[j].fd # fd
      ELSE 0

\* Vec::pop in the place of Vec::remove(idx): the last entry goes.
remove_last(fds, idx) ==
    SubSeq(fds, 1, Len(fds) - 1)

\* Vec::remove(idx): the entries after idx move down by one.
remove(fds, idx) ==
    SubSeq(fds, 1, idx - 1) \o SubSeq(fds, idx + 1, Len(fds))

\* Selector::new, given the value fetch_add returned.
Selector_new(id) ==
    [id |-> id, has_waker |-> FALSE, fds |-> <<>>]

\* try_clone that builds the table anew instead of cloning it.
try_clone_empty(self) ==
    [id |-> self.id, has_waker |-> self.has_waker, fds |-> <<>>]

try_clone(self) ==
    [id |-> self.id, has_waker |-> self.has_waker, fds |-> self.fds]

\* The filter of select: the entries that go to the batch, in table order.
select_filter(fds) ==
    SelectSeq(fds, LAMBDA event :
                     is_readable(event) \/ is_writable(event) \/ is_error(event))

\* select without events.clear(): the new records follow the old ones.
select_noclear(self, events, timeout, os) ==
    LET to == select_timeout(timeout)
        p == poll(self.fds, Len(self.fds), to, os)
        pushed == events \o select_filter(p.fds)
    IN  IF p.err # "none"
          THEN [self |-> [self EXCEPT !.fds = p.fds], events |-> events,
                ret |-> p.err, timeout |-> to, blocks |-> p.blocks, polls |-> 1]
          ELSE [self |-> [self EXCEPT !.fds = p.fds], events |-> pushed,
                ret |-> IF Len(pushed) = p.n THEN "Ok" ELSE "Panic",
                timeout |-> to, blocks |-> p.blocks, polls |-> 1]

\* select that drains the ready entries out of the table (retain the rest).
select_drain(self, events, timeout, os) ==
    LET to == select_timeout(timeout)
        cleared == <<>>
        p == poll(self.fds, Len(self.fds), to, os)
        pushed == cleared \o select_filter(p.fds)
    IN  IF p.err # "none"
          THEN [self |-> [self EXCEPT !.fds = p.fds], events |-> cleared,
                ret |-> p.err, timeout |-> to, blocks |-> p.blocks, polls |-> 1]
          ELSE [self |-> [self EXCEPT !.fds =
                            SelectSeq(p.fds, LAMBDA e : e.revents = 0)],
                events |-> pushed,
                ret |-> IF Len(pushed) = p.n THEN "Ok" ELSE "Panic",
                timeout |-> to, blocks |-> p.blocks, polls |-> 1]

\* select(&mut self, events, timeout) against the OS state os: the Selector
\* and the batch after the call, the value returned (Ok, the poll error, or
\* Panic when the debug_assert fails), the timeout handed to poll, and
\* whether the call is still inside poll.
\* select that calls poll again when poll was interrupted.
select_retry(self, events, timeout, os) ==
    LET to == select_timeout(timeout)
        cleared == <<>>
        first == poll(self.fds, Len(self.fds), to, os)
        again == first.err = "EINTR"
        p == IF again
               THEN poll(first.fds, Len(first.fds), to, [os EXCEPT !.err = "none"])
               ELSE first
        pushed == cleared \o select_filter(p.fds)
    IN  IF p.err # "none"
          THEN [self |-> [self EXCEPT !.fds = p.fds], events |-> cleared,
                ret |-> p.err, timeout |-> to, blocks |-> p.blocks,
                polls |-> IF again THEN 2 ELSE 1]
          ELSE [self |-> [self EXCEPT !.fds = p.fds], events |-> pushed,
                ret |-> IF Len(pushed) = p.n THEN "Ok" ELSE "Panic",
                timeout |-> to, blocks |-> p.blocks,
                polls |-> IF again THEN 2 ELSE 1]

select(self, events, timeout, os) ==
    LET to == select_timeout(timeout)
        cleared == <<>>
        p == poll(self.fds, Len(self.fds), to, os)
        pushed == cleared \o select_filter(p.fds)
    IN  IF p.err # "none"
          THEN [self |-> [self EXCEPT !.fds = p.fds], events |-> cleared,
                ret |-> p.err, timeout |-> to, blocks |-> p.blocks, polls |-> 1]
          ELSE [self |-> [self EXCEPT !.fds = p.fds], events |-> pushed,
                ret |-> IF Len(pushed) = p.n THEN "Ok" ELSE "Panic",
                timeout |-> to, blocks |-> p.blocks, polls |-> 1]

\* register without the search for an existing entry.
register_nocheck(self, fd, token_, interests) ==
    [self |-> [self EXCEPT !.fds =
                 Append(@, [fd |-> fd,
                            events |-> interests_to_poll(interests),
                            revents |-> as_c_short(0)])],
     ret |-> "Ok"]

\* register that overwrites the requested mask of the entry it finds before
\* it reports the duplicate.
register_overwrite(self, fd, token_, interests) ==
    LET idx == position(self.fds, fd)
    IN  IF idx # 0
          THEN [self |-> [self EXCEPT !.fds[idx].events = interests_to_poll(interests)],
                ret |-> "AlreadyExists"]
          ELSE [self |-> [self EXCEPT !.fds =
                            Append(@, [fd |-> fd,
                                       events |-> interests_to_poll(interests),
                                       revents |-> as_c_short(0)])],
                ret |-> "Ok"]

register(self, fd, token_, interests) ==
    IF position(self.fds, fd) # 0
      THEN [self |-> self, ret |-> "AlreadyExists"]
      ELSE [self |-> [self EXCEPT !.fds =
                        Append(@, [fd |-> fd,
                                   events |-> interests_to_poll(interests),
                                   revents |-> as_c_short(0)])],
            ret |-> "Ok"]

\* reregister that writes a fresh pollfd over the entry, revents included.
reregister_reset(self, fd, token_, interests) ==
    LET idx == position(self.fds, fd)
    IN  IF idx # 0
          THEN [self |-> [self EXCEPT !.fds[idx] =
                            [fd |-> fd, events |-> interests_to_poll(interests),
                             revents |-> as_c_short(0)]],
                ret |-> "Ok"]
          ELSE [self |-> self, ret |-> "NotFound"]

\* reregister that inserts the entry it does not find.
reregister_upsert(self, fd, token_, interests) ==
    LET idx == position(self.fds, fd)
    IN  IF idx # 0
          THEN [self |-> [self EXCEPT !.fds[idx].events = interests_to_poll(interests)],
                ret |-> "Ok"]
          ELSE [self |-> [self EXCEPT !.fds =
                            Append(@, [fd |-> fd,
                                       events |-> interests_to_poll(interests),
                                       revents |-> as_c_short(0)])],
                ret |-> "Ok"]

reregister(self, fd, token_, interests) ==
    LET idx == position(self.fds, fd)
    IN  IF idx # 0
          THEN [self |-> [self EXCEPT !.fds[idx].events = interests_to_poll(interests)],
                ret |-> "Ok"]
          ELSE [self |-> self, ret |-> "NotFound"]

\* deregister with Vec::swap_remove: the last entry takes the place of the
\* removed one.
deregister_swap_remove(self, fd) ==
    LET idx == position(self.fds, fd)
    IN  IF idx = 0
          THEN [self |-> self, ret |-> "NotFound"]
          ELSE [self |-> [self EXCEPT !.fds =
                            <<>> \o [i \in 1..(Len(@) - 1) |->
                                       IF i = idx THEN @[Len(@)] ELSE @[i]]],
                ret |-> "Ok"]

deregister(self, fd) ==
    LET idx == position(self.fds, fd)
    IN  IF idx = 0
          THEN [self |-> self, ret |-> "NotFound"]
          ELSE [self |-> [self EXCEPT !.fds = remove(@, idx)], ret |-> "Ok"]

\* load in the place of swap(true): the latch is read and never set.
register_waker_load(self) ==
    [self |-> self, ret |-> self.has_waker]

\* AtomicBool::swap(true): the latch is set, the previous value returned.
register_waker(self) ==
    [self |-> [self EXCEPT !.has_waker = TRUE], ret |-> self.has_waker]

\* ------------------------------------------------------------------- State
VARIABLES
    NEXT_ID,     \* the static counter of Selector ids
    selectors,   \* the Selectors created so far, in creation order
    entryState,  \* per Selector and descriptor: Unregistered, Registered or
                 \* Deregistered, as the successful calls so far made it
    last,        \* the last call: operation, Selector, descriptor, result, and
                 \* for select the OS readiness and failure, the timeout given
                 \* to poll, the number of poll calls and the batch argument
                 \* before (events_in) and after (events)
    probe        \* the last application of a function of the translator or of
                 \* the timeout conversion: arguments and results

vars == <<NEXT_ID, selectors, entryState, last, probe>>

NoReady(D) == [fd \in D |-> 0]

\* The record of a call that takes no batch and does not wait.
Call(op, s, fd, ret) ==
    [op |-> op, s |-> s, fd |-> fd, ret |-> ret, ready |-> <<>>, os_err |-> "none",
     timeout |-> 0, polls |-> 0, events_in |-> <<>>, events |-> <<>>]

\* No function applied yet.
NoProbe ==
    [op |-> "none", interests |-> {}, mask |-> 0, timeout |-> None, to |-> 0,
     readable |-> FALSE, writable |-> FALSE, error |-> FALSE,
     read_closed |-> FALSE, write_closed |-> FALSE, priority |-> FALSE]

Init ==
    /\ NEXT_ID = 1
    /\ selectors = <<>>
    /\ entryState = <<>>
    /\ last = Call("start", 0, 0, "Ok")
    /\ probe = NoProbe

\* new that reads the counter and leaves it as it was.
CallNew_load(D) ==
    /\ selectors' = Append(selectors, Selector_new(NEXT_ID))
    /\ NEXT_ID' = NEXT_ID
    /\ entryState' = Append(entryState, [fd \in D |-> "Unregistered"])
    /\ last' = Call("new", Len(selectors) + 1, 0, "Ok")
    /\ UNCHANGED probe

\* NEXT_ID.fetch_add(1) and the construction are one step: the counter is
\* the only shared state and fetch_add is atomic.
CallNew(D) ==
    /\ selectors' = Append(selectors, Selector_new(NEXT_ID))
    /\ NEXT_ID' = NEXT_ID + 1
    /\ entryState' = Append(entryState, [fd \in D |-> "Unregistered"])
    /\ last' = Call("new", Len(selectors) + 1, 0, "Ok")
    /\ UNCHANGED probe

CallTryClone(s) ==
    /\ selectors' = Append(selectors, try_clone(selectors[s]))
    /\ entryState' = Append(entryState, entryState[s])
    /\ last' = Call("try_clone", s, 0, "Ok")
    /\ UNCHANGED <<NEXT_ID, probe>>

CallSelect(s, events_in, timeout, os) ==
    \E r \in {select(selectors[s], events_in, timeout, os)} :
        /\ ~r.blocks
        /\ selectors' = [selectors EXCEPT ![s] = r.self]
        /\ last' = [op |-> "select", s |-> s, fd |-> 0, ret |-> r.ret,
                    ready |-> os.ready, os_err |-> os.err, timeout |-> r.timeout,
                    polls |-> r.polls, events_in |-> events_in, events |-> r.events]
        /\ UNCHANGED <<NEXT_ID, entryState, probe>>

CallRegister(s, fd, token_, interests) ==
    \E r \in {register(selectors[s], fd, token_, interests)} :
        /\ Len(r.self.fds) <= MaxTable
        /\ selectors' = [selectors EXCEPT ![s] = r.self]
        /\ entryState' = IF r.ret = "Ok"
                           THEN [entryState EXCEPT ![s][fd] = "Registered"]
                           ELSE entryState
        /\ last' = Call("register", s, fd, r.ret)
        /\ UNCHANGED <<NEXT_ID, probe>>

CallReregister(s, fd, token_, interests) ==
    \E r \in {reregister(selectors[s], fd, token_, interests)} :
        /\ selectors' = [selectors EXCEPT ![s] = r.self]
        /\ last' = Call("reregister", s, fd, r.ret)
        /\ UNCHANGED <<NEXT_ID, entryState, probe>>

CallDeregister(s, fd) ==
    \E r \in {deregister(selectors[s], fd)} :
        /\ selectors' = [selectors EXCEPT ![s] = r.self]
        /\ entryState' = IF r.ret = "Ok"
                           THEN [entryState EXCEPT ![s][fd] = "Deregistered"]
                           ELSE entryState
        /\ last' = Call("deregister", s, fd, r.ret)
        /\ UNCHANGED <<NEXT_ID, probe>>

CallRegisterWaker(s) ==
    \E r \in {register_waker(selectors[s])} :
        /\ selectors' = [selectors EXCEPT ![s] = r.self]
        /\ last' = Call("register_waker", s, 0, IF r.ret THEN "true" ELSE "false")
        /\ UNCHANGED <<NEXT_ID, entryState, probe>>

\* What poll may meet: any readiness of the descriptors D, or a failure
\* (modelled with nothing ready).
OsStates(D) ==
    [ready : [D -> OsMasks], err : {"none"}]
      \cup [ready : {NoReady(D)}, err : PollErrors]

\* One Selector and its owner.
Next ==
    \/ selectors = <<>> /\ CallNew(FDs)
    \/ \E s \in 1..Len(selectors), events_in \in BatchInputs,
          timeout \in Timeouts, os \in OsStates(FDs) :
         CallSelect(s, events_in, timeout, os)
    \/ \E s \in 1..Len(selectors), fd \in FDs, token_ \in Tokens, interests \in Interest :
         CallRegister(s, fd, token_, interests)
    \/ \E s \in 1..Len(selectors), fd \in FDs, token_ \in Tokens, interests \in Interest :
         CallReregister(s, fd, token_, interests)
    \/ \E s \in 1..Len(selectors), fd \in FDs : CallDeregister(s, fd)
    \/ \E s \in 1..Len(selectors) : CallRegisterWaker(s)

Spec == Init /\ [][Next]_vars

\* Several Selectors, made by new and by try_clone.
NextShared ==
    \/ Len(selectors) < MaxSel /\ CallNew(SharedFDs)
    \/ \E s \in 1..Len(selectors) : Len(selectors) < MaxSel /\ CallTryClone(s)
    \/ \E s \in 1..Len(selectors), events_in \in BatchInputs,
          timeout \in Timeouts, os \in OsStates(SharedFDs) :
         CallSelect(s, events_in, timeout, os)
    \/ \E s \in 1..Len(selectors), fd \in SharedFDs, token_ \in Tokens,
          interests \in Interest :
         CallRegister(s, fd, token_, interests)
    \/ \E s \in 1..Len(selectors), fd \in SharedFDs, token_ \in Tokens,
          interests \in Interest :
         CallReregister(s, fd, token_, interests)
    \/ \E s \in 1..Len(selectors), fd \in SharedFDs : CallDeregister(s, fd)
    \/ \E s \in 1..Len(selectors) : CallRegisterWaker(s)

SpecShared == Init /\ [][NextShared]_vars

\* One Selector over three descriptors, for what depends on the order of the
\* table.  poll succeeds and reports nothing or POLLIN.
TableOsStates == [ready : [TableFDs -> {0, POLLIN}], err : {"none"}]

NextTable ==
    \/ selectors = <<>> /\ CallNew(TableFDs)
    \/ \E s \in 1..Len(selectors), os \in TableOsStates :
         CallSelect(s, <<>>, Some(0, 0), os)
    \/ \E s \in 1..Len(selectors), fd \in TableFDs, interests \in Interest :
         CallRegister(s, fd, 1007, interests)
    \/ \E s \in 1..Len(selectors), fd \in TableFDs, interests \in Interest :
         CallReregister(s, fd, 1007, interests)
    \/ \E s \in 1..Len(selectors), fd \in TableFDs : CallDeregister(s, fd)

SpecTable == Init /\ [][NextTable]_vars

\* The functions that take no Selector, applied to arguments of the caller's
\* choice.  An event is a pollfd whose revents is the observed mask.
Masks == 0..(2^MaskBits - 1)

ProbeTimeouts ==
    { None, Some(0, 0), Some(0, 999999), Some(0, 1500000), Some(1, 0),
      Some(2147483, 647000000), Some(2147483, 648000000), Some(2147484, 0),
      Some(4294967, 295000000), Some(4294967, 296000000) }

Observed(mask) == [fd |-> 3, events |-> 0, revents |-> mask]

Classes(op, interests, mask) ==
    [op |-> op, interests |-> interests, mask |-> mask, timeout |-> None, to |-> 0,
     readable |-> is_readable(Observed(mask)),
     writable |-> is_writable(Observed(mask)),
     error |-> is_error(Observed(mask)),
     read_closed |-> is_read_closed(Observed(mask)),
     write_closed |-> is_write_closed(Observed(mask)),
     priority |-> is_priority(Observed(mask))]

\* interests_to_poll(interests), and the mask it returns read back through
\* the classification predicates.
ApplyInterestsToPoll(interests) ==
    /\ probe' = Classes("interests_to_poll", interests, interests_to_poll(interests))
    /\ UNCHANGED <<NEXT_ID, selectors, entryState, last>>

\* The classification predicates on an observed mask.
ApplyClassify(mask) ==
    /\ probe' = Classes("classify", {}, mask)
    /\ UNCHANGED <<NEXT_ID, selectors, entryState, last>>

\* The timeout conversion at the head of select.
ApplySelectTimeout(timeout) ==
    /\ probe' = [NoProbe EXCEPT !.op = "select_timeout", !.timeout = timeout,
                                !.to = select_timeout(timeout)]
    /\ UNCHANGED <<NEXT_ID, selectors, entryState, last>>

NextPure ==
    \/ \E interests \in Interest : ApplyInterestsToPoll(interests)
    \/ \E mask \in Masks : ApplyClassify(mask)
    \/ \E timeout \in ProbeTimeouts : ApplySelectTimeout(timeout)

SpecPure == Init /\ [][NextPure]_vars

\* ------------------------------------------------------------------ Claims
Sels == 1..Len(selectors)

HasEntry(fds, fd) == \E i \in 1..Len(fds) : fds[i].fd = fd

\* C1: in every reachable state the registration table of every Selector
\* holds at most one entry for any descriptor value.
C1_OneEntryPerDescriptor ==
    \A s \in Sels :
        \A i, j \in 1..Len(selectors[s].fds) :
            selectors[s].fds[i].fd = selectors[s].fds[j].fd => i = j

\* C1 witness: a table of two entries, just after a register call for one of
\* its descriptors was refused.
C1_Witness ==
    /\ last.op = "register" /\ last.ret = "AlreadyExists"
    /\ Len(selectors[last.s].fds) = 2

\* C2: a register call for a descriptor that has an entry returns
\* AlreadyExists and leaves the table as it was: same entries, same order,
\* same requested and observed masks.
C2_RegisterExistingFails ==
    [][\A s \in Sels :
         (/\ last'.op = "register" /\ last'.s = s
          /\ HasEntry(selectors[s].fds, last'.fd))
         => (/\ last'.ret = "AlreadyExists"
             /\ selectors'[s].fds = selectors[s].fds)]_vars

\* C2 witness: a refused register call on a table whose entry for that
\* descriptor carries a non-zero observed mask.
C2_Witness ==
    /\ last.op = "register" /\ last.ret = "AlreadyExists"
    /\ \E i \in 1..Len(selectors[last.s].fds) :
         /\ selectors[last.s].fds[i].fd = last.fd
         /\ selectors[last.s].fds[i].revents # 0

\* C3: reregister and deregister return NotFound and leave the table as it
\* was when the descriptor has no entry, and return Ok when it has one.
C3_AbsentNotFound ==
    [][\A s \in Sels :
         (last'.op \in {"reregister", "deregister"} /\ last'.s = s)
         => IF HasEntry(selectors[s].fds, last'.fd)
              THEN last'.ret = "Ok"
              ELSE /\ last'.ret = "NotFound"
                   /\ selectors'[s].fds = selectors[s].fds]_vars

\* C3 witness: NotFound for a descriptor that was registered and has since
\* been deregistered, on a table that still holds another entry.
C3_Witness ==
    /\ last.op \in {"reregister", "deregister"} /\ last.ret = "NotFound"
    /\ entryState[last.s][last.fd] = "Deregistered"
    /\ selectors[last.s].fds # <<>>

\* C4: a batch that select leaves holds no event for a descriptor that was
\* deregistered from that Selector and not registered again since.
C4_NoEventAfterDeregister ==
    last.op = "select" =>
        \A i \in 1..Len(last.events) :
            entryState[last.s][last.events[i].fd] # "Deregistered"

\* C4 witness: a successful select with a non-empty batch while a
\* deregistered descriptor is ready at the OS.
C4_Witness ==
    /\ last.op = "select" /\ last.ret = "Ok" /\ last.events # <<>>
    /\ \E fd \in DOMAIN last.ready :
         entryState[last.s][fd] = "Deregistered" /\ last.ready[fd] # 0

\* The indices of the entries of fds whose observed mask classifies as
\* readable, writable or error.
Classified(fds) ==
    {i \in 1..Len(fds) :
        is_readable(fds[i]) \/ is_writable(fds[i]) \/ is_error(fds[i])}

\* C5: after a successful select the batch is the subsequence, in table
\* order, of the entries that classify as readable, writable or error: one
\* record for each, none for another entry, nothing of the old contents.
C5_BatchIsClassifiedSubsequence ==
    (last.op = "select" /\ last.ret = "Ok") =>
        LET fds == selectors[last.s].fds
            idx == Classified(fds)
        IN  /\ Len(last.events) = Cardinality(idx)
            /\ \A i \in idx :
                 last.events[Cardinality({j \in idx : j <= i})] = fds[i]

\* C5 witness: two registered descriptors, the second one ready, a batch
\* argument that came in filled, and a batch of exactly one event.
C5_Witness ==
    /\ last.op = "select" /\ last.ret = "Ok" /\ last.events_in # <<>>
    /\ Len(selectors[last.s].fds) = 2
    /\ Classified(selectors[last.s].fds) = {2}
    /\ Len(last.events) = 1

\* C6: the token of every event select emits is the descriptor value of a
\* registered entry, never a token that was passed to register or
\* reregister; and the token passed changes nothing of what those calls do.
C6_TokenFromDescriptor ==
    /\ [](last.op = "select" =>
            \A i \in 1..Len(last.events) :
                /\ token(last.events[i]) = last.events[i].fd
                /\ token(last.events[i]) \notin Tokens
                /\ entryState[last.s][token(last.events[i])] = "Registered")
    /\ [][\A s \in Sels :
            /\ (last'.op = "register" /\ last'.s = s) =>
                 \E interests \in Interest : \A t \in Tokens :
                     register(selectors[s], last'.fd, t, interests).self = selectors'[s]
            /\ (last'.op = "reregister" /\ last'.s = s) =>
                 \E interests \in Interest : \A t \in Tokens :
                     reregister(selectors[s], last'.fd, t, interests).self = selectors'[s]]_vars

\* C6 witness: select emits events for two descriptors, both registered
\* with tokens that differ from the descriptor values.
C6_Witness ==
    /\ last.op = "select" /\ last.ret = "Ok"
    /\ {token(last.events[i]) : i \in 1..Len(last.events)} = {3, 4}

\* C7 (as claimed): when poll fails, the batch holds the records it held
\* before the call.
C7_FailureLeavesBatch ==
    (last.op = "select" /\ last.ret \in PollErrors) => last.events = last.events_in

\* C8: try_clone gives a Selector with the id, the table and the latch value
\* of its source; and a call on one Selector changes no other Selector that
\* has the same id: not its table, not its latch.
C8_CloneIndependent ==
    [][/\ last'.op = "try_clone" =>
            /\ Len(selectors') = Len(selectors) + 1
            /\ selectors'[Len(selectors')].id = selectors[last'.s].id
            /\ selectors'[Len(selectors')].fds = selectors[last'.s].fds
            /\ selectors'[Len(selectors')].has_waker = selectors[last'.s].has_waker
       /\ \A t \in Sels :
            (last'.op \in {"new", "try_clone"} \/ last'.s # t) =>
                /\ selectors'[t].fds = selectors[t].fds
                /\ selectors'[t].has_waker = selectors[t].has_waker
                /\ selectors'[t].id = selectors[t].id]_vars

\* C8 witness: a clone and its source, with the same id, whose tables and
\* latches have come to differ.
C8_Witness ==
    /\ Len(selectors) = 2
    /\ selectors[1].id = selectors[2].id
    /\ selectors[1].fds # <<>> /\ selectors[2].fds = <<>>
    /\ selectors[2].has_waker /\ ~selectors[1].has_waker
    /\ last.op = "deregister" /\ last.s = 2 /\ last.ret = "Ok"

\* C9: the latch of a new Selector is unset; register_waker returns false
\* exactly when the latch was unset and leaves it set; the latch is never
\* unset again.  So of the calls on a Selector made by new, the first
\* returns false and every later one true.
C9_LatchOneShot ==
    [][/\ last'.op = "new" => ~selectors'[last'.s].has_waker
       /\ \A s \in Sels :
            /\ (last'.op = "register_waker" /\ last'.s = s) =>
                 /\ last'.ret = (IF selectors[s].has_waker THEN "true" ELSE "false")
                 /\ selectors'[s].has_waker
            /\ selectors[s].has_waker => selectors'[s].has_waker]_vars

\* C9 witness: a register_waker call that returned true.
C9_Witness ==
    last.op = "register_waker" /\ last.ret = "true"

\* C10: a select call, whatever it returns, leaves the table with the same
\* descriptors in the same order with the same requested masks.
C10_SelectKeepsRegistrations ==
    [][\A s \in Sels :
         (last'.op = "select" /\ last'.s = s) =>
            /\ Len(selectors'[s].fds) = Len(selectors[s].fds)
            /\ \A i \in 1..Len(selectors[s].fds) :
                 /\ selectors'[s].fds[i].fd = selectors[s].fds[i].fd
                 /\ selectors'[s].fds[i].events = selectors[s].fds[i].events]_vars

\* C10 witness: a select that returned Ok over two entries and left a
\* non-zero observed mask in both.
C10_Witness ==
    /\ last.op = "select" /\ last.ret = "Ok"
    /\ Len(selectors[last.s].fds) = 2
    /\ \A i \in 1..2 : selectors[last.s].fds[i].revents # 0

\* C11: a Selector made by new has an identity that no Selector made before
\* it has; a Selector comes into being with the identity of an existing one
\* only when it is made by try_clone from a Selector of that identity; and
\* no Selector's identity ever changes.
C11_NewIdentityIsFresh ==
    [][ /\ \A t \in Sels : selectors'[t].id = selectors[t].id
        /\ Len(selectors') > Len(selectors) =>
              LET n == Len(selectors')
              IN  /\ last'.op = "new" =>
                        \A t \in Sels : selectors[t].id # selectors'[n].id
                  /\ (\E t \in Sels : selectors[t].id = selectors'[n].id) =>
                        /\ last'.op = "try_clone"
                        /\ selectors[last'.s].id = selectors'[n].id ]_vars

\* new has just made a second Selector, and the two identities differ.
C11_Witness ==
    /\ last.op = "new"
    /\ Len(selectors) = 2
    /\ selectors[1].id # selectors[2].id

\* Bit b (a power of two) of the non-negative mask m.
HasBit(m, b) == (m \div b) % 2 = 1

TrackedWriteBits == {POLLOUT, POLLWRNORM, POLLWRBAND}
TrackedReadBits == {POLLIN, POLLRDNORM, POLLRDBAND, POLLPRI}
MaskBitSet == {2^k : k \in 0..(MaskBits - 1)}

\* C12: the mask interests_to_poll returns for a readable-only interest has
\* none of the bits write-ready, write-normal, write-band; for a
\* writable-only interest none of the bits read-ready, read-normal,
\* read-band, priority; and for readable + writable exactly the bits of the
\* two single-interest masks together.
C12_MasksOfInterests ==
    probe.op = "interests_to_poll" =>
        /\ probe.mask >= 0
        /\ probe.interests = {READABLE} =>
              \A b \in TrackedWriteBits : ~HasBit(probe.mask, b)
        /\ probe.interests = {WRITABLE} =>
              \A b \in TrackedReadBits : ~HasBit(probe.mask, b)
        /\ probe.interests = {READABLE, WRITABLE} =>
              \A b \in MaskBitSet :
                  HasBit(probe.mask, b) <=>
                      \/ HasBit(interests_to_poll({READABLE}), b)
                      \/ HasBit(interests_to_poll({WRITABLE}), b)

\* The translator was applied to a readable-only interest and returned a
\* mask with the read-ready bit.
C12_Witness ==
    /\ probe.op = "interests_to_poll"
    /\ probe.interests = {READABLE}
    /\ HasBit(probe.mask, POLLIN)

\* C13: for every observed mask, is_write_closed is true exactly when the
\* hangup bit or the error bit is set; so it is false for every mask made
\* only of readable bits.
C13_WriteClosedIffHupOrErr ==
    probe.op = "classify" =>
        /\ probe.write_closed <=>
              (HasBit(probe.mask, POLLHUP) \/ HasBit(probe.mask, POLLERR))
        /\ (\A b \in MaskBitSet \ TrackedReadBits : ~HasBit(probe.mask, b)) =>
              ~probe.write_closed

\* is_write_closed answered true for a mask with the error bit and neither
\* the hangup bit nor the write-ready bit.
C13_Witness ==
    /\ probe.op = "classify"
    /\ HasBit(probe.mask, POLLERR)
    /\ ~HasBit(probe.mask, POLLHUP)
    /\ ~HasBit(probe.mask, POLLOUT)
    /\ probe.write_closed

\* C14: select with a timeout of zero never stays inside poll: whatever the
\* table (empty included) and whatever poll meets, the call calls poll once
\* and returns; when it succeeded and no registered descriptor was ready it
\* returns an empty batch.
C14_ZeroTimeoutReturns ==
    /\ \A s \in Sels, events_in \in BatchInputs, os \in OsStates(FDs) :
          LET r == select(selectors[s], events_in, Some(0, 0), os)
          IN  ~r.blocks /\ r.polls = 1 /\ r.timeout = 0
    /\ ( /\ last.op = "select"
         /\ last.timeout = 0
         /\ last.os_err = "none"
         /\ \A i \in 1..Len(selectors[last.s].fds) :
               selectors[last.s].fds[i].revents = 0 ) =>
            last.ret = "Ok" /\ last.events = <<>>

\* select with a zero timeout has returned an empty batch from a Selector
\* with a registered descriptor while nothing was ready: the call that
\* would not return without a timeout.
C14_Witness ==
    /\ last.op = "select"
    /\ last.timeout = 0
    /\ last.ret = "Ok"
    /\ last.events = <<>>
    /\ selectors[last.s].fds # <<>>
    /\ \A fd \in FDs : last.ready[fd] = 0
    /\ select(selectors[last.s], <<>>, None, [ready |-> last.ready, err |-> "none"]).blocks

\* C15: the debug_assert that ends a successful select holds in every call:
\* the batch holds as many records as the ready count poll returned.
C15_AssertionHolds ==
    last.op = "select" => last.ret # "Panic"

\* C16: select hands poll -1 for no timeout, and for Some(d) a value that is
\* never negative, whatever the length of d: a timeout that is given is
\* never turned into a wait without limit.
C16_SomeIsNeverNegative ==
    probe.op = "select_timeout" =>
        IF probe.timeout.is_some THEN probe.to >= 0 ELSE probe.to = -1

\* C17: a successful reregister(fd, interest) sets the requested mask of
\* fd's entry to interests_to_poll(interest) and changes nothing else: the
\* entry keeps its place, its descriptor and its observed mask, every other
\* entry is as it was, and the table has the length it had.
C17_ReregisterChangesOneMask ==
    [][ (last'.op = "reregister" /\ last'.ret = "Ok") =>
          LET old == selectors[last'.s].fds
              new == selectors'[last'.s].fds
          IN  /\ HasEntry(old, last'.fd)
              /\ Len(new) = Len(old)
              /\ \A i \in 1..Len(old) :
                    IF old[i].fd # last'.fd
                      THEN new[i] = old[i]
                      ELSE /\ new[i].fd = old[i].fd
                           /\ new[i].revents = old[i].revents
                           /\ \E interests \in Interest :
                                 /\ CallReregister(last'.s, last'.fd, 1007, interests)
                                 /\ new[i].events = interests_to_poll(interests) ]_vars

\* reregister has succeeded on the second of three entries, one that holds an
\* observed mask from an earlier select, and has given it a requested mask
\* under which poll would not have reported that mask.
C17_Witness ==
    /\ last.op = "reregister"
    /\ last.ret = "Ok"
    /\ Len(selectors[last.s].fds) = 3
    /\ selectors[last.s].fds[2].fd = last.fd
    /\ selectors[last.s].fds[2].revents = POLLIN
    /\ selectors[last.s].fds[2].events = interests_to_poll({WRITABLE})

\* C18: a successful deregister(fd) removes fd's entry and nothing else: the
\* table is one shorter, holds no entry for fd, and holds every other entry
\* once, with the masks it had and in the order it had.
C18_DeregisterRemovesOneEntry ==
    [][ (last'.op = "deregister" /\ last'.ret = "Ok") =>
          LET old == selectors[last'.s].fds
              new == selectors'[last'.s].fds
          IN  /\ HasEntry(old, last'.fd)
              /\ ~HasEntry(new, last'.fd)
              /\ Len(new) = Len(old) - 1
              /\ \E idx \in 1..Len(old) :
                    /\ old[idx].fd = last'.fd
                    /\ \A i \in 1..Len(new) :
                          new[i] = old[IF i < idx THEN i ELSE i + 1] ]_vars

\* deregister has succeeded and has left two entries, the descriptors in
\* the order opposite to their values, one of them with an observed mask.
C18_Witness ==
    /\ last.op = "deregister"
    /\ last.ret = "Ok"
    /\ Len(selectors[last.s].fds) = 2
    /\ selectors[last.s].fds[1].fd > selectors[last.s].fds[2].fd
    /\ selectors[last.s].fds[1].revents = POLLIN

\* C19: every select that returns has called poll exactly once; when poll
\* failed (an interruption included) select returns that failure and its
\* batch holds no record.
C19_OnePollPerSelect ==
    last.op = "select" =>
        /\ last.polls = 1
        /\ last.os_err # "none" =>
              last.ret = last.os_err /\ last.events = <<>>

\* select on a Selector with a registered descriptor has returned the
\* interruption that poll met.
C19_Witness ==
    /\ last.op = "select"
    /\ last.os_err = "EINTR"
    /\ last.ret = "EINTR"
    /\ last.polls = 1
    /\ selectors[last.s].fds # <<>>

\* C20: the mask interests_to_poll(i), read as an observed mask, is readable
\* exactly when i contains readable, writable exactly when i contains
\* writable, and is neither an error nor read-closed nor write-closed.
C20_RequestedMaskReadsBack ==
    probe.op = "interests_to_poll" =>
        /\ probe.readable <=> READABLE \in probe.interests
        /\ probe.writable <=> WRITABLE \in probe.interests
        /\ ~probe.error
        /\ ~probe.read_closed
        /\ ~probe.write_closed

\* The mask of a writable-only interest was read back as writable and not
\* readable.
C20_Witness ==
    /\ probe.op = "interests_to_poll"
    /\ probe.interests = {WRITABLE}
    /\ probe.writable
    /\ ~probe.readable

====
